---- MODULE Spec2Model ----
(***************************************************************************)
(* A model of atri's rank-fusion and evaluation core:                      *)
(*   - the metric library (atri/core/metrics/defaults.py, ndcg.py), whose  *)
(*     functions receive the caller's Python list and may extend it in     *)
(*     place;                                                              *)
(*   - the rank aggregators (atri/core/ranking/aggregation.py): Borda      *)
(*     Count and Markov-Chain MC4;                                         *)
(*   - the multi-query evaluation of SearchManager                         *)
(*     (atri/manager/filesystem.py);                                       *)
(*   - the document collection ACol (atri/core/primitives/collection.py)   *)
(*     and the directory it keeps on disk.                                 *)
(*                                                                         *)
(* Numbers.  Python floats are modelled as fractions [num, den] of         *)
(* integers (den > 0).  1/log2(i+1) is irrational: it is modelled in fixed *)
(* point, as the integer InvLog2[i] = round(10^6 / log2(i+1)); the table   *)
(* is strictly decreasing like the real discounts.                         *)
(***************************************************************************)
EXTENDS Integers, Sequences, FiniteSets, TLC

VARIABLES
    vec,        \* the caller's relevance list (a Python list, shared by reference)
    arg,        \* the list as it was when the last metric call was made
    call,       \* the last metric call: function name and keyword arguments
    ret,        \* what the last metric call did: returned value or raised
    rankings,   \* the list of rankings handed to rank_by_id
    setorder,   \* iteration order of the set `docs` (the universe) in this process
    ndranks,    \* the padded rows of universe indices built by rank_by_id
    stationary, \* MC4: the distribution the power iteration returned
    fused,      \* what rank_by_id did: the fused ranking or the error raised
    request,    \* multiquery_search: the metrics argument and the options passed
    metrics,    \* the metric specs in effect (the default list when none is passed)
    handles,    \* metrics_handle: per metric, the function name and its params dict
    query,      \* the query the generator yielded last: the hits found and its qrel
    hits_evaluated, \* the relevance list of that query, as the metrics left it
    evaluation, \* the running sum per metric
    ratio,      \* the number of queries accumulated
    report,     \* what multiquery_search did: the report or the error raised
    power,      \* get_stationary_distribution_matrix: the locals of one call
    disk,       \* the collection directory: whether it exists and what it holds
    col,        \* the ACol object in memory
    colret,     \* the last operation on the collection and what it did
    searcher,   \* an ASearcher: its weighting cache and its last search
    fs          \* the FileSystem: its registry, the folders of its root, its last call

mvars == <<vec, arg, call, ret>>
avars == <<rankings, setorder, ndranks, stationary, fused>>
evars == <<request, metrics, handles, query, hits_evaluated, evaluation, ratio, report>>
pvars == <<power>>
cvars == <<disk, col, colret>>
svars == <<searcher>>
fvars == <<fs>>
vars == <<vec, arg, call, ret, rankings, setorder, ndranks, stationary, fused,
          request, metrics, handles, query, hits_evaluated, evaluation, ratio, report,
          power, disk, col, colret, searcher, fs>>

----------------------------------------------------------------------------
(* Bounds of the metric inputs. *)

MaxLen == 2
MaxGrade == 2
MaxLimit == 3
MaxNrel == 2

Grades == 0..MaxGrade
Vectors == UNION {[1..n -> Grades] : n \in 0..MaxLen}

\* An optional keyword argument is a set: {} when absent, {v} when passed.
Opt(S) == {{}} \cup {{x} : x \in S}
Get(opt, default) == IF opt = {} THEN default ELSE CHOOSE x \in opt : TRUE

Limits == (0 - 1)..MaxLimit
Nrels == 0..MaxNrel

NoKwargs == [limit |-> {}, nrel |-> {}, alternate |-> {}]

\* A float as a fraction.
Frac(n, d) == [num |-> n, den |-> d]
Zero == Frac(0, 1)
FracEq(a, b) == a.num * b.den = b.num * a.den
FracLe(a, b) == a.num * b.den <= b.num * a.den

----------------------------------------------------------------------------
(* Python list helpers. *)

Min(a, b) == IF a < b THEN a ELSE b
Max(a, b) == IF a > b THEN a ELSE b

\* rank += [0] * (limit - len(rank)), guarded by len(rank) < limit
PadTo(rank, limit) ==
    IF Len(rank) < limit
    THEN rank \o [i \in 1..(limit - Len(rank)) |-> 0]
    ELSE rank

\* rank[:n] for n >= 0
Prefix(rank, n) == SubSeq(rank, 1, Min(n, Len(rank)))

RECURSIVE SumSeq(_)
SumSeq(s) == IF s = <<>> THEN 0 ELSE Head(s) + SumSeq(Tail(s))

\* the positive entries of s, each mapped by f
PosHits(s) == SelectSeq(s, LAMBDA h : h > 0)

----------------------------------------------------------------------------
(* atri/core/metrics/defaults.py *)

\* recall(ground_truth_permutated, **kwargs): the list after the call and the value.
recall(list, kw) ==
    LET limit == Get(kw.limit, Len(list))
        nrel0 == Get(kw.nrel, Len(list))
        nrel  == IF nrel0 > Len(list) THEN Len(list) ELSE nrel0
        rank  == PadTo(list, limit)
        total == SumSeq(PosHits(Prefix(rank, limit + 1)))
    IN  [list |-> rank,
         val  |-> IF nrel > 0 THEN Frac(total, nrel) ELSE Zero]

\* precision(ground_truth_permutated, **kwargs)
precision(list, kw) ==
    LET limit == Get(kw.limit, Len(list))
        rank  == PadTo(list, limit)
        prec  == Len(PosHits(Prefix(rank, limit + 1)))
    IN  [list |-> rank,
         val  |-> IF limit > 0 THEN Frac(prec, limit) ELSE Zero]

\* f1(ground_truth_permutated, **kwargs): precision, then recall, on the same list
f1(list, kw) ==
    LET p == precision(list, kw)
        r == recall(p.list, kw)
        s == p.val.num * r.val.den + r.val.num * p.val.den
    IN  [list |-> r.list,
         val  |-> IF s > 0 THEN Frac(2 * p.val.num * r.val.num, s) ELSE Zero]

----------------------------------------------------------------------------
(* atri/core/metrics/ndcg.py *)

\* round(10^6 / log2(i + 1)) for the 1-based rank i = 1..21: "1 / np.log2(i + 1)"
InvLog2 == <<1000000, 630930, 500000, 430677, 386853, 356207, 333333, 315465,
             301030, 289065, 278943, 270238, 262650, 255958, 250000, 244651,
             239812, 235409, 231378, 227670, 224244>>

\* rel.sort(); rel[::-1]: the values in descending order
RECURSIVE InsertDesc(_, _)
InsertDesc(x, s) ==
    IF s = <<>> THEN <<x>>
    ELSE IF x >= Head(s) THEN <<x>> \o s
    ELSE <<Head(s)>> \o InsertDesc(x, Tail(s))

RECURSIVE SortedDesc(_)
SortedDesc(s) == IF s = <<>> THEN <<>> ELSE InsertDesc(Head(s), SortedDesc(Tail(s)))

\* dcg(relevance, alternate), in units of 10^-6
dcg(rel, alternate) ==
    IF Len(rel) < 1 THEN 0
    ELSE IF alternate
    THEN SumSeq([i \in 1..Len(rel) |-> (2^rel[i] - 1) * InvLog2[i]] \o <<>>)
    ELSE rel[1] * InvLog2[1]
         + SumSeq([i \in 1..(Len(rel) - 1) |-> rel[i + 1] * InvLog2[i]] \o <<>>)

\* Mutant of idcg: the sorted copy is not reversed (ascending order).
RECURSIVE Reversed(_)
Reversed(s) == IF s = <<>> THEN <<>> ELSE Reversed(Tail(s)) \o <<Head(s)>>

idcg_ascending(rel, alternate) ==
    IF Len(rel) < 1 THEN 0 ELSE dcg(Reversed(SortedDesc(rel)), alternate)

\* idcg(relevance, alternate): dcg of a sorted copy
idcg(rel, alternate) ==
    IF Len(rel) < 1 THEN 0 ELSE dcg(SortedDesc(rel), alternate)

\* Mutant of ndcg: the validation is off by one (nranks < 0).
ndcg_offbyone(relevance, nranks, alternate) ==
    IF Len(relevance) < 1 THEN [status |-> "ok", val |-> Zero]
    ELSE IF nranks < 0 THEN [status |-> "raise", val |-> Zero]
    ELSE LET padded == relevance \o [i \in 1..Max(0, nranks - Len(relevance)) |-> 0]
             rel    == SubSeq(padded, 1, Min(nranks, Len(padded)))
             ideal  == idcg(rel, alternate)
         IN  IF ideal = 0 THEN [status |-> "ok", val |-> Zero]
             ELSE [status |-> "ok", val |-> Frac(dcg(rel, alternate), ideal)]

\* ndcg(relevance, nranks, alternate): a value, or the Exception('nranks < 1')
ndcg(relevance, nranks, alternate) ==
    IF Len(relevance) < 1 THEN [status |-> "ok", val |-> Zero]
    ELSE IF nranks < 1 THEN [status |-> "raise", val |-> Zero]
    ELSE LET padded == relevance \o [i \in 1..Max(0, nranks - Len(relevance)) |-> 0]
             rel    == SubSeq(padded, 1, Min(nranks, Len(padded)))
             ideal  == idcg(rel, alternate)
         IN  IF ideal = 0 THEN [status |-> "ok", val |-> Zero]
             ELSE [status |-> "ok", val |-> Frac(dcg(rel, alternate), ideal)]

\* NDCG(ground_truth_permutated, **kwargs): pads the caller's list, then ndcg
NDCG(list, kw) ==
    LET limit == Get(kw.limit, Len(list))
        rank  == PadTo(list, limit)
        r     == ndcg(rank, Get(kw.limit, Len(rank)), Get(kw.alternate, TRUE))
    IN  [list |-> rank, status |-> r.status, val |-> r.val]

----------------------------------------------------------------------------
(* The metric library as a state machine: a caller holds one list and calls *)
(* the metrics on it, one call after another.                               *)

NoCall == [fn |-> "none", kw |-> NoKwargs]
NoRet == [status |-> "none", val |-> Zero]

MetricIdle ==
    /\ arg = vec
    /\ call = NoCall
    /\ ret = NoRet

AggIdle ==
    /\ ndranks = <<>>
    /\ stationary = <<>>
    /\ fused = [strategy |-> "none", status |-> "none", list |-> <<>>]

NoReport == [status |-> "idle", values |-> <<>>]
NoQuery == [hits |-> <<>>, qrel |-> [kind |-> "none", ids |-> {}, grades |-> <<>>]]

EvalIdle ==
    /\ metrics = <<>>
    /\ handles = <<>>
    /\ query = NoQuery
    /\ hits_evaluated = <<>>
    /\ evaluation = <<>>
    /\ ratio = 0
    /\ report = NoReport

\* Document names are 1..MaxDocs, in the order of the strings they stand for;
\* a file holds the body of a document, Absent when there is no such file.
MaxDocs == 2
DocNames == 1..MaxDocs
Bodies == {1, 2}
Absent == 0

NoDisk == [dir |-> FALSE, meta |-> FALSE, files |-> [n \in DocNames |-> Absent]]
NoCol == [alive |-> FALSE, docs |-> {}, blocks |-> <<>>, lazy |-> TRUE]
NoColRet ==
    [op |-> "none", name |-> 0, result |-> "none", before |-> NoCol,
     stored |-> Absent, dir |-> FALSE, page |-> 0, pths |-> <<>>, pages |-> 0]

NoPower ==
    [transition |-> <<>>, state |-> <<>>, new |-> <<>>, counter |-> 0, iterations |-> 0,
     tolerance |-> 0, mults |-> 0, converged |-> FALSE, status |-> "idle"]

PowerIdle == power = NoPower

ColIdle ==
    /\ disk = NoDisk
    /\ col = NoCol
    /\ colret = NoColRet

\* A weighting is known by the value of its one required attribute; a cache
\* slot or a request's parameter is a set holding that value, or no value.
SimNames == {"bm25", "tfidf"}
ParamValues == {1, 2}
NoSearcher == [cache |-> [s \in SimNames |-> {}], asked |-> <<>>, used |-> <<>>]
SearcherIdle == searcher = NoSearcher

\* The folders of the FileSystem's root: none, a collection's directory, or a
\* folder that is no collection, empty or holding something.
ColNames == {"a", "b", "_temp"}
NoRegistry == [k \in {} |-> [name |-> "", path |-> ""]]
NoFsCall == [op |-> "none", name |-> "", new_name |-> "", result |-> "none", before |-> NoRegistry]
NoFs == [collections |-> NoRegistry, folders |-> [n \in ColNames |-> "none"], last |-> NoFsCall]
FsIdle == fs = NoFs

\* the components that take no part in a specification stay as they are
OthersIdle ==
    /\ request = [metrics |-> <<>>, limit |-> {}]
    /\ EvalIdle
    /\ SearcherIdle
    /\ FsIdle
    /\ PowerIdle
    /\ ColIdle

MetricInit ==
    /\ vec \in Vectors
    /\ MetricIdle
    /\ rankings = <<>>
    /\ setorder = <<>>
    /\ AggIdle
    /\ OthersIdle

Returns(fn, kw, r) ==
    /\ arg' = vec
    /\ vec' = r.list
    /\ call' = [fn |-> fn, kw |-> kw]
    /\ ret' = [status |-> "ok", val |-> r.val]
    /\ UNCHANGED <<avars, evars, pvars, cvars, svars, fvars>>

CallRecall ==
    \E l \in Opt(Limits), n \in Opt(Nrels) :
        LET kw == [limit |-> l, nrel |-> n, alternate |-> {}]
        IN  Returns("recall", kw, recall(vec, kw))

CallPrecision ==
    \E l \in Opt(Limits) :
        LET kw == [limit |-> l, nrel |-> {}, alternate |-> {}]
        IN  Returns("precision", kw, precision(vec, kw))

CallF1 ==
    \E l \in Opt(Limits), n \in Opt(Nrels) :
        LET kw == [limit |-> l, nrel |-> n, alternate |-> {}]
        IN  Returns("f1", kw, f1(vec, kw))

\* the keyword wrapper NDCG(vec, limit=..., alternate=...)
CallNDCG ==
    \E l \in Opt(Limits), a \in Opt(BOOLEAN) :
        LET kw == [limit |-> l, nrel |-> {}, alternate |-> a]
            r  == NDCG(vec, kw)
        IN  /\ arg' = vec
            /\ vec' = r.list
            /\ call' = [fn |-> "NDCG", kw |-> kw]
            /\ ret' = [status |-> r.status, val |-> r.val]
            /\ UNCHANGED <<avars, evars, pvars, cvars, svars, fvars>>

\* the positional ndcg(vec, nranks, alternate)
CallNdcg ==
    \E k \in Limits, a \in BOOLEAN :
        LET r == ndcg(vec, k, a)
        IN  /\ arg' = vec
            /\ vec' = vec
            /\ call' = [fn |-> "ndcg", kw |-> [limit |-> {k}, nrel |-> {}, alternate |-> {a}]]
            /\ ret' = r
            /\ UNCHANGED <<avars, evars, pvars, cvars, svars, fvars>>

MetricNext ==
    \/ CallRecall
    \/ CallPrecision
    \/ CallF1
    \/ CallNDCG
    \/ CallNdcg

SpecMetrics == MetricInit /\ [][MetricNext]_vars

----------------------------------------------------------------------------
(* Claims about the metric library, checked under SpecMetrics. *)

\* the limit / nranks the last call ran with
CallLimit == Get(call.kw.limit, Len(arg))
IsOne(v) == v.num = v.den /\ v.den > 0
IsZero(v) == v.num = 0
IsSortedDesc(s) == \A i \in 1..(Len(s) - 1) : s[i] >= s[i + 1]
NoNegative(s) == \A i \in 1..Len(s) : s[i] >= 0
Mutating == {"recall", "precision", "f1", "NDCG"}

\* C6: recall, precision, f1 and NDCG never mutate the relevance vector they
\* are given: after any call, with any limit, the caller's list is what it was
\* before the call.  (Stated as claimed; the code extends the list in place.)
C6_InputNeverMutated ==
    call.fn \in Mutating => vec = arg

\* C7: precision(vec, limit) lies in [0, 1] for every vector and every
\* limit >= 1, limit < len(vec) included.  (Stated as claimed; the window
\* rank[:limit + 1] counts one hit more than limit.)
C7_PrecisionInUnitInterval ==
    (call.fn = "precision" /\ CallLimit >= 1)
        => (FracLe(Zero, ret.val) /\ FracLe(ret.val, Frac(1, 1)))

\* C8: recall and precision are idempotent under re-padding: for a limit k
\* above len(v), the metric on v already padded with zeros to length k, and a
\* second call on that padded list, give the value of one call on the unpadded
\* v with the same options.  (Stated as claimed; recall takes nrel from the
\* length before padding.)
C8_RepaddingIdempotent ==
    (call.fn \in {"recall", "precision"} /\ CallLimit > Len(arg))
        => LET padded == PadTo(arg, CallLimit)
               first  == IF call.fn = "recall" THEN recall(padded, call.kw)
                         ELSE precision(padded, call.kw)
               second == IF call.fn = "recall" THEN recall(first.list, call.kw)
                         ELSE precision(first.list, call.kw)
           IN  FracEq(first.val, ret.val) /\ FracEq(second.val, ret.val)

Harmonic(p, r) ==
    LET s == p.num * r.den + r.num * p.den
    IN  IF s > 0 THEN Frac(2 * p.num * r.num, s) ELSE Zero

\* C11: f1(vec, **kw) equals 2*P*R/(P+R) where P = precision(vec, **kw) and
\* R = recall(vec, **kw) are the values the two metrics return when each is
\* called alone on the same original vec with the same kw; 0.0 when both are
\* 0.  (Stated as claimed; inside f1 recall runs on the list precision padded.)
C11_F1IsHarmonicMean ==
    call.fn = "f1"
        => FracEq(ret.val, Harmonic(precision(arg, call.kw).val, recall(arg, call.kw).val))

----------------------------------------------------------------------------
(* atri/core/ranking/aggregation.py: inputs                                 *)
(*                                                                          *)
(* numpy arrays and dicts keyed 1..n are sequences; row i of a Python       *)
(* 0-based array is element i + 1.                                          *)

MaxRankings == 2

\* the document ids and the rankings of the module's own example
Docs == {"A", "B", "C"}
Example == << <<"A", "C", "B">>, <<"B", "A", "C">>, <<"B", "C", "A">>, <<"A", "B", "C">> >>

Range(s) == {s[i] : i \in 1..Len(s)}
Perms(S) == {f \in [1..Cardinality(S) -> S] : \A x \in S : \E i \in 1..Cardinality(S) : f[i] = x}

\* a Ranking: a duplicate-free sequence of document ids
AllRankings == UNION {Perms(T) : T \in SUBSET Docs}
Inputs == UNION {[1..k -> AllRankings] : k \in 0..MaxRankings} \cup {Example}

\* Aggregator.get_unique_doc_ids(rankings)
get_unique_doc_ids(rks) == UNION {Range(rks[i]) : i \in 1..Len(rks)}

\* map_doc_ids[docid], for "for i, docid in enumerate(docs, start=1)"
map_doc_ids(order, docid) == CHOOSE i \in 1..Len(order) : order[i] = docid

\* rank_ids = [map_doc_ids[docid] for docid in rank]
RankIds(order, rank) == [i \in 1..Len(rank) |-> map_doc_ids(order, rank[i])]

\* the elements of a set of integers in ascending order: list(set) of small ints
RECURSIVE Ascending(_)
Ascending(S) ==
    IF S = {} THEN <<>>
    ELSE LET m == CHOOSE x \in S : \A y \in S : x <= y
         IN  <<m>> \o Ascending(S \ {m})

\* the guard "if len(rankings) > 0" of both rank_by_id
HasRankings_always(rks) == TRUE

HasRankings(rks) == Len(rks) > 0

----------------------------------------------------------------------------
(* BordaCount *)

\* BordaCount.rank_by_id, lines 139-146: the padded rows.  The padding is
\* list(set_doc_ids - set_rank_ids), a set of the integers 1..n, which CPython
\* iterates in ascending order.
BordaRows(rks, order) ==
    [i \in 1..Len(rks) |->
        LET rank_ids == RankIds(order, rks[i])
        IN  rank_ids \o Ascending((1..Len(order)) \ Range(rank_ids))]

\* Mutant of _rank_score: the score grows with the position.
rank_score_ascending(rank, n_rows) ==
    [d \in 1..n_rows |->
        IF \E i \in 1..n_rows : rank[i] = d
        THEN (CHOOSE i \in 1..n_rows : rank[i] = d /\ \A j \in (i + 1)..n_rows : rank[j] # d)
        ELSE 0]

\* Mutant of _rank_score: the first position scores n_rows, the last 1.
rank_score_from_n(rank, n_rows) ==
    [d \in 1..n_rows |->
        IF \E i \in 1..n_rows : rank[i] = d
        THEN n_rows + 1 - (CHOOSE i \in 1..n_rows : rank[i] = d /\ \A j \in (i + 1)..n_rows : rank[j] # d)
        ELSE 0]

\* BordaCount._rank_score: borda_rank[rank[i] - 1] = n_rows - (i + 1), i 0-based
rank_score(rank, n_rows) ==
    [d \in 1..n_rows |->
        IF \E i \in 1..n_rows : rank[i] = d
        THEN n_rows - (CHOOSE i \in 1..n_rows : rank[i] = d /\ \A j \in (i + 1)..n_rows : rank[j] # d)
        ELSE 0]

\* BordaCount._fit: data = scores.sum(axis=0)
fit_data(rows, ndocs) ==
    [d \in 1..ndocs |-> SumSeq([i \in 1..Len(rows) |-> rank_score(rows[i], ndocs)[d]])]

\* data.argsort() + 1: numpy's default sort is not stable, so every ordering of
\* the indices that is ascending in data is a possible result
Argsorts(data) ==
    {p \in Perms(1..Len(data)) : \A i \in 1..(Len(data) - 1) : data[p[i]] <= data[p[i + 1]]}

\* Mutant of fit_order: the argsort is not reversed.
fit_order_ascending(asc) == asc

\* BordaCount._fit: (data.argsort() + 1)[::-1]
fit_order(asc) == [i \in 1..Len(asc) |-> asc[Len(asc) + 1 - i]]

\* BordaCount.rank_by_id, line 150: [(scores[idx[i] - 1], map_ids_doc[idx[i]]) ...]
BordaList(order, idx, scores) ==
    [i \in 1..Len(order) |-> [score |-> scores[idx[i]], id |-> order[idx[i]]]]

\* every result BordaCount.rank_by_id can return for these rankings when the
\* universe set iterates in this order
BordaOutcomes(rks, order) ==
    LET rows == BordaRows(rks, order)
        data == fit_data(rows, Len(order))
    IN  {[rows |-> rows, list |-> BordaList(order, fit_order(asc), data)] : asc \in Argsorts(data)}

----------------------------------------------------------------------------
(* MarkovChain (MC4)                                                        *)
(*                                                                          *)
(* Matrices hold exact integer numerators: the normalized matrix over the   *)
(* denominator items, the ergodic matrix over ErgDen * items.  A            *)
(* distribution is in fixed point, Scale units to 1.0, each product rounded *)
(* to the nearest unit as a float operation rounds to the nearest float.    *)

\* erg_number = 0.15 = ErgNum / ErgDen; iterations = 200; precision = 1e-7
ErgNum == 3
ErgDen == 20
Iterations == 200
Scale == 1000000000
PrecisionUnits == 100

RoundDiv(x, d) == (2 * x + d) \div (2 * d)

\* np.array(...): the elements computed once and stored
Array(s) == s \o <<>>

\* MarkovChain.rank_by_id, lines 368-374: the padded rows.  paddings[i] is
\* list(docs - set(rank)), a set of strings: any order of the missing ids.
RECURSIVE MarkovPaddings(_, _)
MarkovPaddings(rks, docs) ==
    IF rks = <<>> THEN {<<>>}
    ELSE {<<p>> \o rest : p \in Perms(docs \ Range(Head(rks))),
                          rest \in MarkovPaddings(Tail(rks), docs)}

\* Mutant of MarkovRows: the padding comes before the ranked ids.
MarkovRows_padding_first(rks, order, paddings) ==
    [i \in 1..Len(rks) |-> RankIds(order, paddings[i]) \o RankIds(order, rks[i])]

MarkovRows(rks, order, paddings) ==
    [i \in 1..Len(rks) |-> RankIds(order, rks[i]) \o RankIds(order, paddings[i])]

\* lines 376-378: ndpos[doc - 1, i] = pos + 1
NdPos(rows, ndoc) ==
    Array([doc \in 1..ndoc |->
        Array([i \in 1..Len(rows) |-> CHOOSE pos \in 1..ndoc : rows[i][pos] = doc])])

\* get_partial_transition_matrix(df, 'mc4', items, lists)
get_partial_transition_matrix(df, items, lists) ==
    Array([i \in 1..items |-> Array([j \in 1..items |->
        LET result == Cardinality({c \in 1..lists : df[i][c] < df[j][c]})
        IN  IF result = 0 /\ i = j THEN 0 - 1
            ELSE IF 2 * result > lists THEN 0
            ELSE 1])])

\* Mutant of get_normalized_transition_matrix: the diagonal is left as it is.
get_normalized_transition_matrix_keeps_diagonal(p_matrix, items) ==
    Array([i \in 1..items |-> Array([j \in 1..items |-> p_matrix[i][j]])])

\* get_normalized_transition_matrix: p_matrix / items, then the diagonal
\* becomes 1 - (the rest of its row); numerators over items
get_normalized_transition_matrix(p_matrix, items) ==
    Array([i \in 1..items |-> Array([j \in 1..items |->
        IF i = j
        THEN items - SumSeq([k \in 1..items |-> IF k = i THEN 0 ELSE p_matrix[i][k]])
        ELSE p_matrix[i][j]])])

\* get_ergodic_transition_matrix: n_matrix * (1 - erg_number) + erg_number / items;
\* numerators over ErgDen * items
ergodic_transition_matrix(n_matrix, items, erg_num) ==
    Array([i \in 1..items |->
        Array([j \in 1..items |-> (ErgDen - erg_num) * n_matrix[i][j] + erg_num])])

\* mc4_aggregator's call, erg_number at its default
get_ergodic_transition_matrix(n_matrix, items) ==
    ergodic_transition_matrix(n_matrix, items, ErgNum)

\* Mutant of get_initial_distribution_matrix: np.repeat(1 / (2 * items), items).
get_initial_distribution_matrix_half(items) ==
    Array([i \in 1..items |-> RoundDiv(Scale, 2 * items)])

\* get_initial_distribution_matrix: np.repeat(1 / items, items)
get_initial_distribution_matrix(items) == Array([i \in 1..items |-> RoundDiv(Scale, items)])

\* state_matrix.dot(transition_matrix), column j: the whole units and the
\* remainders of the first i terms
RECURSIVE DotWhole(_, _, _, _, _)
DotWhole(state, e_matrix, d, j, i) ==
    IF i = 0 THEN 0
    ELSE (state[i] \div d) * e_matrix[i][j] + DotWhole(state, e_matrix, d, j, i - 1)

RECURSIVE DotRest(_, _, _, _, _)
DotRest(state, e_matrix, d, j, i) ==
    IF i = 0 THEN 0
    ELSE (state[i] % d) * e_matrix[i][j] + DotRest(state, e_matrix, d, j, i - 1)

Dot(state, e_matrix, items) ==
    LET d == ErgDen * items
    IN  Array([j \in 1..items |->
            DotWhole(state, e_matrix, d, j, items)
            + RoundDiv(DotRest(state, e_matrix, d, j, items), d)])

Abs(x) == IF x < 0 THEN 0 - x ELSE x

\* the spec's tolerance on the sum of a distribution, 1e-6
SumTolerance == Scale \div 1000000
SumsToOne(state) == Abs(SumSeq(state) - Scale) <= SumTolerance

\* get_stationary_distribution_matrix: the while loop from this counter on,
\* with the counter it ends at, whether it ended by the break, and whether
\* every state_matrix it held summed to 1
RECURSIVE PowerRun(_, _, _, _)
PowerRun(state, e_matrix, items, counter) ==
    IF counter > Iterations
    THEN [state |-> state, counter |-> counter, converged |-> FALSE, sums |-> SumsToOne(state)]
    ELSE LET new == Dot(state, e_matrix, items)
         IN  IF \A j \in 1..items : Abs(new[j] - state[j]) < PrecisionUnits
             THEN [state |-> state, counter |-> counter, converged |-> TRUE,
                   sums |-> SumsToOne(state) /\ SumsToOne(new)]
             ELSE [PowerRun(new, e_matrix, items, counter + 1)
                       EXCEPT !.sums = @ /\ SumsToOne(state)]

\* get_stationary_distribution_matrix: the while loop from this counter on
RECURSIVE PowerIteration(_, _, _, _)
PowerIteration(state, e_matrix, items, counter) ==
    IF counter > Iterations THEN state
    ELSE LET new == Dot(state, e_matrix, items)
         IN  IF \A j \in 1..items : Abs(new[j] - state[j]) < PrecisionUnits
             THEN state
             ELSE PowerIteration(new, e_matrix, items, counter + 1)

get_stationary_distribution_matrix(state, e_matrix, items) ==
    PowerIteration(state, e_matrix, items, 1)

\* Mutant of get_aggregated_ranks: the rank counts the items above, not the
\* distinct values above.
get_aggregated_ranks_competition(matrix) ==
    [i \in 1..Len(matrix) |-> 1 + Cardinality({k \in 1..Len(matrix) : matrix[k] > matrix[i]})]

\* get_aggregated_ranks: dense ranks, 1 for the largest value
get_aggregated_ranks(matrix) ==
    [i \in 1..Len(matrix) |-> 1 + Cardinality({v \in Range(matrix) : v > matrix[i]})]

\* list.sort(key=lambda x: -x[0]): a stable sort by descending score
RECURSIVE InsertStable(_, _)
InsertStable(s, x) ==
    IF s = <<>> THEN <<x>>
    ELSE IF Head(s).score >= x.score THEN <<Head(s)>> \o InsertStable(Tail(s), x)
    ELSE <<x>> \o s

RECURSIVE SortByScoreDesc(_)
SortByScoreDesc(s) ==
    IF s = <<>> THEN <<>>
    ELSE InsertStable(SortByScoreDesc(SubSeq(s, 1, Len(s) - 1)), s[Len(s)])

\* mc4_aggregator: the stationary distribution of the rows' chain
mc4_stationary(rows, items) ==
    LET df == NdPos(rows, items)
        p  == get_partial_transition_matrix(df, items, Len(rows))
        n  == get_normalized_transition_matrix(p, items)
        e  == get_ergodic_transition_matrix(n, items)
    IN  get_stationary_distribution_matrix(get_initial_distribution_matrix(items), e, items)

\* rank_by_id, lines 380-384: (size - rank, id) per item, sorted by -score
MarkovList(order, pi) ==
    LET ranks == get_aggregated_ranks(pi)
    IN  SortByScoreDesc([i \in 1..Len(order) |->
            [score |-> Len(order) - ranks[i], id |-> order[i]]])

\* every result MarkovChain.rank_by_id can produce for these rankings when the
\* universe set iterates in this order; with no document, erg_number / items
\* divides by zero
MarkovOutcomes(rks, order) ==
    {LET rows == MarkovRows(rks, order, pad)
     IN  IF Len(order) = 0
         THEN [rows |-> rows, stationary |-> <<>>, status |-> "ZeroDivisionError", list |-> <<>>]
         ELSE LET pi == mc4_stationary(rows, Len(order))
              IN  [rows |-> rows, stationary |-> pi, status |-> "ok",
                   list |-> MarkovList(order, pi)]
     : pad \in MarkovPaddings(rks, get_unique_doc_ids(rks))}

----------------------------------------------------------------------------
(* The aggregators as a state machine: one call of rank_by_id on the input. *)

AggInit ==
    /\ rankings \in Inputs
    /\ setorder \in Perms(get_unique_doc_ids(rankings))
    /\ AggIdle
    /\ vec = <<>>
    /\ MetricIdle
    /\ OthersIdle

Raised(strategy, error) ==
    /\ fused' = [strategy |-> strategy, status |-> error, list |-> <<>>]
    /\ UNCHANGED <<rankings, setorder, ndranks, stationary>>
    /\ UNCHANGED <<mvars, evars, pvars, cvars, svars, fvars>>

\* BordaCount().rank_by_id(rankings)
BordaRankById ==
    /\ fused.strategy = "none"
    /\ IF HasRankings(rankings)
       THEN \E o \in BordaOutcomes(rankings, setorder) :
                /\ ndranks' = o.rows
                /\ fused' = [strategy |-> "borda", status |-> "ok", list |-> o.list]
                /\ UNCHANGED <<rankings, setorder, stationary>>
                /\ UNCHANGED <<mvars, evars, pvars, cvars, svars, fvars>>
       ELSE Raised("borda", "ValueError")

\* MarkovChain().rank_by_id(rankings)
MarkovRankById ==
    /\ fused.strategy = "none"
    /\ IF HasRankings(rankings)
       THEN \E o \in MarkovOutcomes(rankings, setorder) :
                /\ ndranks' = o.rows
                /\ stationary' = o.stationary
                /\ fused' = [strategy |-> "markov", status |-> o.status, list |-> o.list]
                /\ UNCHANGED <<rankings, setorder>>
                /\ UNCHANGED <<mvars, evars, pvars, cvars, svars, fvars>>
       ELSE Raised("markov", "ValueError")

AggNext ==
    \/ BordaRankById
    \/ MarkovRankById

SpecAgg == AggInit /\ [][AggNext]_vars

----------------------------------------------------------------------------
(* Claims about the aggregators, checked under SpecAgg. *)

Ids(list) == [i \in 1..Len(list) |-> list[i].id]
Universe == get_unique_doc_ids(rankings)
ScoreOf(list, d) == (CHOOSE e \in Range(list) : e.id = d).score

\* C1: BordaCount.rank_by_id called with exactly one duplicate-free ranking r
\* returns the documents of r in exactly the order of r.
C1_BordaSingleRanking ==
    (fused.strategy = "borda" /\ Len(rankings) = 1)
        => (fused.status = "ok" /\ Ids(fused.list) = rankings[1])

\* C1 witness: a full ranking whose order differs from the universe's
\* iteration order came back unchanged.
C1_Witness ==
    /\ fused.strategy = "borda" /\ fused.status = "ok"
    /\ rankings = << <<"C", "A", "B">> >> /\ setorder = <<"A", "B", "C">>
    /\ Ids(fused.list) = <<"C", "A", "B">>

\* C2: MarkovChain.rank_by_id called with exactly one duplicate-free ranking r
\* returns the documents of r in exactly the order of r, the stationary
\* distribution being strictly decreasing along r.  (Stated as claimed; the
\* empty ranking makes erg_number / items divide by zero.)
C2_MarkovSingleRanking ==
    (fused.strategy = "markov" /\ Len(rankings) = 1)
        => /\ fused.status = "ok"
           /\ Ids(fused.list) = rankings[1]
           /\ \A i \in 1..(Len(rankings[1]) - 1) :
                  stationary[map_doc_ids(setorder, rankings[1][i])]
                      > stationary[map_doc_ids(setorder, rankings[1][i + 1])]

\* C2 on non-empty rankings only: there the claimed result is what the code
\* returns.
C2_MarkovSingleNonEmptyRanking ==
    (fused.strategy = "markov" /\ Len(rankings) = 1 /\ Len(rankings[1]) >= 1)
        => /\ fused.status = "ok"
           /\ Ids(fused.list) = rankings[1]
           /\ \A i \in 1..(Len(rankings[1]) - 1) :
                  stationary[map_doc_ids(setorder, rankings[1][i])]
                      > stationary[map_doc_ids(setorder, rankings[1][i + 1])]

\* C3: for both strategies, rank_by_id called with an empty list of rankings
\* fails with an error and returns no fused ranking.
C3_EmptyRankingsFail ==
    (fused.strategy \in {"borda", "markov"} /\ Len(rankings) = 0)
        => (fused.status = "ValueError" /\ fused.list = <<>>)

\* C3 witness: MarkovChain was called with no ranking and raised.
C3_Witness ==
    /\ rankings = <<>> /\ fused.strategy = "markov" /\ fused.status = "ValueError"

\* the sum, over the padded rows, of the number of documents minus the 1-based
\* position of index d in the row
BordaTotal(d) ==
    SumSeq([i \in 1..Len(ndranks) |->
        Len(setorder) - (CHOOSE pos \in 1..Len(setorder) : ndranks[i][pos] = d)])

\* C4: for any non-empty list of duplicate-free rankings BordaCount.rank_by_id
\* returns (score, id) pairs that hold every id of the universe exactly once,
\* in non-increasing score order, each score being the document's total over
\* all rankings; on the example the totals satisfy B >= A >= C.
C4_BordaTotalOrder ==
    (fused.strategy = "borda" /\ Len(rankings) >= 1)
        => /\ fused.status = "ok"
           /\ Len(fused.list) = Cardinality(Universe)
           /\ Range(Ids(fused.list)) = Universe
           /\ \A i \in 1..(Len(fused.list) - 1) :
                  fused.list[i].score >= fused.list[i + 1].score
           /\ \A i \in 1..Len(fused.list) :
                  fused.list[i].score = BordaTotal(map_doc_ids(setorder, fused.list[i].id))
           /\ rankings = Example =>
                  /\ ScoreOf(fused.list, "B") >= ScoreOf(fused.list, "A")
                  /\ ScoreOf(fused.list, "A") >= ScoreOf(fused.list, "C")

\* C4 witness: the example, fused by Borda Count, with its totals.
C4_Witness ==
    /\ rankings = Example /\ fused.strategy = "borda" /\ fused.status = "ok"
    /\ ScoreOf(fused.list, "B") = 5
    /\ ScoreOf(fused.list, "A") = 5
    /\ ScoreOf(fused.list, "C") = 2

\* Borda Count gave every document the sum over the rankings of top - p, p the
\* 0-based position of the document in the ranking, which is what _rank_score
\* yields for each ranking.
BordaScoresCountDownFrom(top) ==
    (fused.strategy = "borda" /\ fused.status = "ok")
        => /\ \A i \in 1..Len(ndranks) : \A pos \in 1..Len(setorder) :
                  rank_score(ndranks[i], Len(setorder))[ndranks[i][pos]] = top - (pos - 1)
           /\ \A e \in Range(fused.list) :
                  e.score = SumSeq([i \in 1..Len(ndranks) |->
                      top - ((CHOOSE pos \in 1..Len(setorder) :
                                 ndranks[i][pos] = map_doc_ids(setorder, e.id)) - 1)])

\* C20: in Borda Count the score a ranking gives to the document at 0-based
\* position p is universe_size - p, the top document of a ranking over n
\* documents receiving n and the last 1, and a document's total is the sum of
\* these scores over all rankings.  (Stated as claimed.)
C20_BordaScoreIsSizeMinusPosition == BordaScoresCountDownFrom(Len(setorder))

\* C20 as the code has it: the score at 0-based position p is
\* universe_size - 1 - p, the top document receiving n - 1 and the last 0.
C20_BordaScoreIsSizeMinusOneMinusPosition == BordaScoresCountDownFrom(Len(setorder) - 1)

\* C20 witness: on the example the first ranking A, C, B gives A 2, C 1 and
\* B 0, and B's total over the four rankings is 0 + 2 + 2 + 1.
C20_Witness ==
    /\ rankings = Example /\ setorder = <<"A", "B", "C">>
    /\ fused.strategy = "borda" /\ fused.status = "ok"
    /\ rank_score(ndranks[1], 3) = <<2, 0, 1>>
    /\ ScoreOf(fused.list, "B") = 0 + 2 + 2 + 1

\* C21: in the list BordaCount.rank_by_id returns, any two documents with
\* equal total score appear in ascending order of the 1-based index the
\* preprocessing assigned to them.
C21_BordaTiesAscendingIndex ==
    (fused.strategy = "borda" /\ fused.status = "ok")
        => \A i \in 1..Len(fused.list) : \A j \in (i + 1)..Len(fused.list) :
               fused.list[i].score = fused.list[j].score
                   => map_doc_ids(setorder, fused.list[i].id)
                          < map_doc_ids(setorder, fused.list[j].id)

\* C22: for both strategies each padded row built in preprocessing is a
\* permutation of the universe indices 1..n that starts with the ids actually
\* ranked, in their original order, every id missing from the ranking coming
\* after all of them; so every 0-based position lies in [0, n).
C22_PaddedRowsArePermutations ==
    (fused.strategy \in {"borda", "markov"} /\ Len(rankings) >= 1)
        => /\ Len(ndranks) = Len(rankings)
           /\ \A i \in 1..Len(rankings) :
                  /\ Len(ndranks[i]) = Len(setorder)
                  /\ Range(ndranks[i]) = 1..Len(setorder)
                  /\ SubSeq(ndranks[i], 1, Len(rankings[i])) = RankIds(setorder, rankings[i])
                  /\ \A pos \in (Len(rankings[i]) + 1)..Len(setorder) :
                         setorder[ndranks[i][pos]] \notin Range(rankings[i])
                  /\ \A d \in 1..Len(setorder) :
                         (CHOOSE pos \in 1..Len(setorder) : ndranks[i][pos] = d) - 1
                             \in 0..(Len(setorder) - 1)

\* C22 witness: MarkovChain padded the ranking B with C, A and the ranking
\* C, A with B.
C22_Witness ==
    /\ fused.strategy = "markov" /\ fused.status = "ok"
    /\ rankings = << <<"B">>, <<"C", "A">> >> /\ setorder = <<"A", "B", "C">>
    /\ ndranks = << <<2, 3, 1>>, <<3, 1, 2>> >>

\* the normalized transition matrix MC4 builds from the padded rows, its
\* entries numerators over the number of documents
NormalizedOfRows ==
    LET items == Len(setorder)
    IN  get_normalized_transition_matrix(
            get_partial_transition_matrix(NdPos(ndranks, items), items, Len(ndranks)), items)

\* C23: for every input of MC4 with n >= 1 documents the normalized transition
\* matrix has every entry >= 0 and every row summing to 1, and after damping
\* with 0 < epsilon <= 1 every entry is strictly positive and every row still
\* sums to 1.  (epsilon ranges over the multiples of 1 / ErgDen.)
C23_TransitionMatricesAreStochastic ==
    (fused.strategy = "markov" /\ Len(rankings) >= 1 /\ Len(setorder) >= 1)
        => LET items == Len(setorder)
               n == NormalizedOfRows
           IN  /\ \A i, j \in 1..items : n[i][j] >= 0
               /\ \A i \in 1..items : SumSeq(n[i]) = items
               /\ \A erg_num \in 1..ErgDen :
                      LET e == ergodic_transition_matrix(n, items, erg_num)
                      IN  /\ \A i, j \in 1..items : e[i][j] > 0
                          /\ \A i \in 1..items : SumSeq(e[i]) = ErgDen * items

\* C23 witness: on the example the chain moves from A to B only, from B to A
\* only, and from C to both, each with probability 1/3.
C23_Witness ==
    /\ fused.strategy = "markov" /\ fused.status = "ok"
    /\ rankings = Example /\ setorder = <<"A", "B", "C">>
    /\ NormalizedOfRows = << <<2, 1, 0>>, <<1, 2, 0>>, <<1, 1, 1>> >>

\* the power iteration MC4 runs on the padded rows
PowerRunOfRows ==
    LET items == Len(setorder)
    IN  PowerRun(get_initial_distribution_matrix(items),
                 get_ergodic_transition_matrix(NormalizedOfRows, items), items, 1)

\* C24: MC4 aggregation on the example rankings reaches max|delta pi| < 1e-7
\* before the 200-iteration cap, and the distribution it returns sums to 1,
\* as does every iterate from the uniform distribution on.
C24_ExampleConverges ==
    (fused.strategy = "markov" /\ rankings = Example)
        => /\ fused.status = "ok"
           /\ PowerRunOfRows.converged
           /\ PowerRunOfRows.counter <= Iterations
           /\ PowerRunOfRows.state = stationary
           /\ PowerRunOfRows.sums
           /\ SumsToOne(stationary)

\* C24 witness: the example converged after several multiplications, A and B
\* sharing the largest probability.
C24_Witness ==
    /\ fused.strategy = "markov" /\ fused.status = "ok"
    /\ rankings = Example /\ setorder = <<"A", "B", "C">>
    /\ PowerRunOfRows.converged
    /\ PowerRunOfRows.counter > 2
    /\ stationary[1] = stationary[2]
    /\ stationary[2] > stationary[3]

\* C25: MC4 converts the stationary distribution to scores by dense ranking:
\* documents with equal probability get the same score, a strictly higher
\* probability gets a strictly higher score, the ranks used are the
\* consecutive integers 1..d for d distinct probabilities, each score is
\* universe_size - dense_rank, and the returned list is sorted by
\* non-increasing score with equal scores in ascending universe index.
C25_MarkovScoresAreDenseRanks ==
    (fused.strategy = "markov" /\ fused.status = "ok")
        => LET n == Len(setorder)
               score(d) == ScoreOf(fused.list, setorder[d])
           IN  /\ Len(fused.list) = n
               /\ Range(Ids(fused.list)) = Range(setorder)
               /\ \A d1, d2 \in 1..n :
                      /\ stationary[d1] = stationary[d2] => score(d1) = score(d2)
                      /\ stationary[d1] > stationary[d2] => score(d1) > score(d2)
               /\ {n - score(d) : d \in 1..n} = 1..Cardinality(Range(stationary))
               /\ \A i \in 1..n : \A j \in (i + 1)..n :
                      /\ fused.list[i].score >= fused.list[j].score
                      /\ fused.list[i].score = fused.list[j].score
                             => map_doc_ids(setorder, fused.list[i].id)
                                    < map_doc_ids(setorder, fused.list[j].id)

\* C25 witness: on the example, with the universe iterating as B, A, C, the
\* tied B and A share dense rank 1 and come back in index order, before C.
C25_Witness ==
    /\ fused.strategy = "markov" /\ fused.status = "ok"
    /\ rankings = Example /\ setorder = <<"B", "A", "C">>
    /\ stationary[1] = stationary[2] /\ stationary[2] > stationary[3]
    /\ fused.list = << [score |-> 2, id |-> "B"], [score |-> 2, id |-> "A"],
                       [score |-> 1, id |-> "C"] >>

\* C5: aggregation is deterministic: for a fixed list of rankings the fused
\* ranking (scores and order) returned by either strategy is the same for
\* every iteration order of the universe set.  (Stated as claimed, in its
\* weakest reading: the ranking that was returned is one the call can return
\* under every other iteration order as well.)
C5_IterationOrderIndependent ==
    fused.status = "ok"
        => \A other \in Perms(Universe) :
               IF fused.strategy = "borda"
               THEN \E o \in BordaOutcomes(rankings, other) : o.list = fused.list
               ELSE \E o \in MarkovOutcomes(rankings, other) : o.list = fused.list

----------------------------------------------------------------------------
(* atri/manager/filesystem.py: SearchManager.multiquery_search              *)
(*                                                                          *)
(* A metric spec string is its name and, when it holds an "@", the decimal  *)
(* digits after it.  The values the metrics return are accumulated as       *)
(* floats: here in fixed point, MetricUnit units to 1.0, each division      *)
(* rounded to the nearest unit.  The searcher is an outside collaborator:   *)
(* the hits of a query are any duplicate-free list of document names.       *)

MaxQueries == 2
MaxK == 2

EvalDocs == {"A", "B"}
MetricNames == {"precision", "recall", "ndcg"}
JudgedGrades == {1, 2}
MetricUnit == 10^6

MetricSpecs ==
    {[name |-> n, at |-> a] : n \in MetricNames, a \in Opt({<<k>> : k \in 0..MaxK})}

\* constants.py: DEFAULT_METRIC_LIST
DEFAULT_METRIC_LIST ==
    << [name |-> "ndcg", at |-> {<<3>>}], [name |-> "ndcg", at |-> {<<5>>}],
       [name |-> "ndcg", at |-> {<<1, 0>>}], [name |-> "ndcg", at |-> {<<2, 0>>}],
       [name |-> "precision", at |-> {<<3>>}], [name |-> "precision", at |-> {<<5>>}],
       [name |-> "precision", at |-> {<<1, 0>>}],
       [name |-> "recall", at |-> {<<3>>}], [name |-> "recall", at |-> {<<5>>}],
       [name |-> "recall", at |-> {<<1, 0>>}] >>

\* the specs that are requested together: one of each name, recall the
\* shallowest
PairedSpecs ==
    {[name |-> n, at |-> {<<IF n = "recall" THEN 1 ELSE MaxK>>}] : n \in MetricNames}

\* the metrics argument: a list of distinct specs, or <<>> when none is passed
MetricLists ==
    {<<m>> : m \in MetricSpecs}
        \cup {p \in [1..2 -> PairedSpecs] : p[1] # p[2]}
MetricArgs == MetricLists \cup {<<>>}
LimitOptions == Opt({1})

\* a relevance judgment: a set of names, or a dict from names to grades
SetJudgments ==
    {[kind |-> "set", ids |-> S, grades |-> [d \in S |-> 1]] : S \in SUBSET EvalDocs}
DictJudgments ==
    UNION {{[kind |-> "dict", ids |-> S, grades |-> g] : g \in [S -> JudgedGrades]}
              : S \in SUBSET EvalDocs}
Hits == UNION {Perms(T) : T \in SUBSET EvalDocs}
Queries == [hits : Hits, qrel : SetJudgments \cup DictJudgments]

\* int(metric_and_k[1]) of a string of decimal digits
RECURSIVE int(_)
int(digits) ==
    IF digits = <<>> THEN 0
    ELSE 10 * int(SubSeq(digits, 1, Len(digits) - 1)) + digits[Len(digits)]

\* __metric_handle.split_limit: (name, int(k)) or (name, None)
split_limit(metric) ==
    IF metric.at # {}
    THEN [name |-> metric.name, k |-> {int(Get(metric.at, <<>>))}]
    ELSE [name |-> metric.name, k |-> {}]

\* atri.core.metrics.get_metric: the metric function of that name
get_metric(metric_name) == IF metric_name = "ndcg" THEN "NDCG" ELSE metric_name

\* __metric_handle(metric, **kwargs): "if k: kwargs['limit'] = k"
metric_handle(metric, limit) ==
    LET sl == split_limit(metric)
    IN  [fn |-> get_metric(sl.name),
         params |-> [limit |-> IF sl.k # {} /\ sl.k # {0} THEN sl.k ELSE limit,
                     nrel |-> {}, alternate |-> {}]]

\* truth(name): {} stands for the KeyError of qrel[x]
truth(qrel, name) ==
    IF qrel.kind = "dict"
    THEN IF name \in DOMAIN qrel.grades THEN {qrel.grades[name]} ELSE {}
    ELSE IF name \in qrel.ids THEN {1} ELSE {0}

\* [truth(name) for name, _ in response.items()]
Truths(q) == Array([i \in 1..Len(q.hits) |-> truth(q.qrel, q.hits[i])])

\* a float as the nearest fixed-point number, by long division
RECURSIVE FixedDigits(_, _, _)
FixedDigits(r, d, n) ==
    IF n = 0 THEN IF 2 * r >= d THEN 1 ELSE 0
    ELSE ((10 * r) \div d) * 10^(n - 1) + FixedDigits((10 * r) % d, d, n - 1)

Fixed(v) == (v.num \div v.den) * MetricUnit + FixedDigits(v.num % v.den, v.den, 6)

\* fn(hits_evaluated, **params)
call_metric(fn, list, params) ==
    IF fn = "precision"
    THEN LET r == precision(list, params)
         IN  [list |-> r.list, status |-> "ok", val |-> r.val]
    ELSE IF fn = "recall"
    THEN LET r == recall(list, params)
         IN  [list |-> r.list, status |-> "ok", val |-> r.val]
    ELSE NDCG(list, params)

\* the one element of a singleton set
Only(S) == CHOOSE x \in S : TRUE

\* the loop "for metric in metrics" of one query, from metric i on: the one
\* list hits_evaluated goes to every metric
RECURSIVE run_metrics(_, _, _, _)
run_metrics(list, hs, i, values) ==
    IF i > Len(hs) THEN [list |-> list, status |-> "ok", values |-> values]
    ELSE Only({IF r.status # "ok"
               THEN [list |-> r.list, status |-> "Exception", values |-> values]
               ELSE run_metrics(r.list, hs, i + 1, Append(values, Fixed(r.val)))
               : r \in {call_metric(hs[i].fn, list, hs[i].params)}})

\* Mutant of accumulate: the sum is overwritten.
accumulate_overwrite(sum, value) == value

\* evaluation[metric] += value
accumulate(sum, value) == sum + value

\* Mutant of finalize: an empty batch reports 0.0 for every metric.
finalize_zero(sums, n) ==
    [status |-> "ok",
     values |-> [i \in 1..Len(sums) |-> IF n = 0 THEN 0 ELSE RoundDiv(sums[i], n)]]

\* lines 302-305: evaluation[metric] /= ratio, for every metric
finalize(sums, n) ==
    IF n = 0 /\ Len(sums) > 0 THEN [status |-> "ZeroDivisionError", values |-> <<>>]
    ELSE [status |-> "ok", values |-> [i \in 1..Len(sums) |-> RoundDiv(sums[i], n)]]

----------------------------------------------------------------------------
(* multiquery_search as a state machine: the call starts, the generator     *)
(* yields one query after another, and the report is made when it ends.     *)

EvalInit ==
    /\ request \in [metrics : MetricArgs, limit : LimitOptions]
    /\ EvalIdle
    /\ SearcherIdle
    /\ FsIdle
    /\ vec = <<>>
    /\ MetricIdle
    /\ rankings = <<>>
    /\ setorder = <<>>
    /\ AggIdle
    /\ PowerIdle
    /\ ColIdle

\* lines 276-282: the metrics in effect, their handles, the zeroed sums
StartSearch ==
    /\ report.status = "idle"
    /\ LET ms == IF request.metrics = <<>> THEN DEFAULT_METRIC_LIST ELSE request.metrics
       IN  /\ metrics' = ms
           /\ handles' = Array([i \in 1..Len(ms) |-> metric_handle(ms[i], request.limit)])
           /\ evaluation' = Array([i \in 1..Len(ms) |-> 0])
    /\ ratio' = 0
    /\ report' = [status |-> "running", values |-> <<>>]
    /\ UNCHANGED <<request, query, hits_evaluated>>
    /\ UNCHANGED <<mvars, avars, pvars, cvars, svars, fvars>>

\* lines 284-300: one turn of the loop over query_generator
EvaluateQuery ==
    /\ report.status = "running"
    /\ ratio < MaxQueries
    /\ \E q \in Queries :
        LET ts == Truths(q)
        IN  /\ query' = q
            /\ IF \E i \in 1..Len(ts) : ts[i] = {}
               THEN /\ report' = [status |-> "KeyError", values |-> <<>>]
                    /\ UNCHANGED <<handles, hits_evaluated, evaluation, ratio>>
               ELSE LET list == Array([i \in 1..Len(ts) |-> Get(ts[i], 0)])
                        hs   == Array([i \in 1..Len(handles) |->
                                    [handles[i] EXCEPT !.params.nrel = {Cardinality(q.qrel.ids)}]])
                    IN  \E r \in {run_metrics(list, hs, 1, <<>>)} :
                        /\ handles' = hs
                        /\ hits_evaluated' = r.list
                        /\ IF r.status = "ok"
                           THEN /\ evaluation' = Array([i \in 1..Len(evaluation) |->
                                        accumulate(evaluation[i], r.values[i])])
                                /\ ratio' = ratio + 1
                                /\ UNCHANGED report
                           ELSE /\ report' = [status |-> r.status, values |-> <<>>]
                                /\ UNCHANGED <<evaluation, ratio>>
    /\ UNCHANGED <<request, metrics>>
    /\ UNCHANGED <<mvars, avars, pvars, cvars, svars, fvars>>

\* lines 302-305: the generator is exhausted
FinishSearch ==
    /\ report.status = "running"
    /\ report' = finalize(evaluation, ratio)
    /\ UNCHANGED <<request, metrics, handles, query, hits_evaluated, evaluation, ratio>>
    /\ UNCHANGED <<mvars, avars, pvars, cvars, svars, fvars>>

EvalNext ==
    \/ StartSearch
    \/ EvaluateQuery
    \/ FinishSearch

SpecEval == EvalInit /\ [][EvalNext]_vars

----------------------------------------------------------------------------
(* Claims about multiquery_search, checked under SpecEval. *)

Finished == report.status \notin {"idle", "running"}
Evaluated == query # NoQuery

\* the k of a spec name@k
KOf(metric) == int(Get(metric.at, <<>>))

\* the relevance the judgment gives a name: its grade, 0 when it has none
Judged(qrel, name) == IF name \in qrel.ids THEN qrel.grades[name] ELSE 0

\* the hits are exactly the relevant documents, the best grades first
PerfectRun(q) ==
    /\ Range(q.hits) = q.qrel.ids
    /\ \A i \in 1..(Len(q.hits) - 1) :
           Judged(q.qrel, q.hits[i]) >= Judged(q.qrel, q.hits[i + 1])

\* C12: multiquery_search on a single-query batch in which every returned hit
\* is relevant and optimally ranked reports precision@k = 1.0, recall@k = 1.0
\* and ndcg@k = 1.0 for every k with 1 <= k <= number of relevant documents.
\* (Stated as claimed, for a run that returns all the relevant documents; the
\* window rank[:k + 1] of precision and recall holds k + 1 hits.)
C12_PerfectRunScoresOne ==
    (report.status = "ok" /\ ratio = 1 /\ PerfectRun(query))
        => \A i \in 1..Len(metrics) :
               (/\ metrics[i].at # {}
                /\ KOf(metrics[i]) >= 1
                /\ KOf(metrics[i]) <= Cardinality(query.qrel.ids))
                   => report.values[i] = MetricUnit

\* the values the metrics return for query q, in the order of the loop
QueryValues(q, hs) ==
    run_metrics([i \in 1..Len(q.hits) |-> Judged(q.qrel, q.hits[i])] \o <<>>, hs, 1, <<>>).values

C15_AbsentHitIsZero ==
    Evaluated
        => /\ report.status # "KeyError"
           /\ Len(hits_evaluated) >= Len(query.hits)
           /\ \A i \in 1..Len(query.hits) :
                  hits_evaluated[i] = Judged(query.qrel, query.hits[i])

\* C16: for every metric spec name@k with k >= 0 the metric is evaluated with
\* its limit option equal to k, whatever limit the options hold; a spec
\* without @k leaves the limit option as passed.  (Stated as claimed; the code
\* tests "if k", which 0 fails.)
C16_AtKSetsLimit ==
    report.status # "idle"
        => \A i \in 1..Len(metrics) :
               handles[i].params.limit
                   = IF metrics[i].at # {} THEN {KOf(metrics[i])} ELSE request.limit

----------------------------------------------------------------------------
(* MarkovChain.get_stationary_distribution_matrix, one pass of its loop at  *)
(* a time, for any row-stochastic matrix over two items, any starting       *)
(* distribution, any cap and two precisions.  The matrix holds numerators   *)
(* over ErgDen * items as in Dot; the distribution is in fixed point.       *)

MaxIterations == 3
MaxParts == 4

PowerItems == 2
PowerDen == ErgDen * PowerItems

PowerRows == {<<a, PowerDen - a>> : a \in {k * (PowerDen \div MaxParts) : k \in 0..MaxParts}}
PowerMatrices == [1..PowerItems -> PowerRows]
PowerStates == {<<a, Scale - a>> : a \in {0, Scale \div 2, Scale}}
PowerPrecisions == {PrecisionUnits, Scale \div 4}

\* Mutant of PowerContinue: the loop runs once more than the cap.
PowerContinue_once_more(counter, iterations) == counter <= iterations + 1

\* line 259: while counter <= iterations
PowerContinue(counter, iterations) == counter <= iterations

\* line 267: (np.abs(error) < precision).all()
PowerConverged(new, state, tolerance) ==
    \A j \in 1..Len(state) : Abs(new[j] - state[j]) < tolerance

PowerInit ==
    /\ power \in [transition : PowerMatrices, state : PowerStates, new : {<<>>},
                  counter : {1}, iterations : 0..MaxIterations,
                  tolerance : PowerPrecisions, mults : {0}, converged : {FALSE},
                  status : {"loop"}]
    /\ request = [metrics |-> <<>>, limit |-> {}]
    /\ EvalIdle
    /\ SearcherIdle
    /\ FsIdle
    /\ vec = <<>>
    /\ MetricIdle
    /\ rankings = <<>>
    /\ setorder = <<>>
    /\ AggIdle
    /\ ColIdle

\* lines 259-272: one pass of the loop; on convergence it breaks and line 274
\* returns state_matrix
PowerPass ==
    /\ power.status = "loop"
    /\ PowerContinue(power.counter, power.iterations)
    /\ \E new \in {Dot(power.state, power.transition, PowerItems)} :
        IF PowerConverged(new, power.state, power.tolerance)
        THEN power' = [power EXCEPT !.new = new, !.mults = @ + 1,
                                    !.converged = TRUE, !.status = "returned"]
        ELSE power' = [power EXCEPT !.new = new, !.mults = @ + 1,
                                    !.state = new, !.counter = @ + 1]
    /\ UNCHANGED <<mvars, avars, evars, cvars, svars, fvars>>

\* lines 259, 274: the cap is reached, state_matrix is returned
PowerReturn ==
    /\ power.status = "loop"
    /\ ~PowerContinue(power.counter, power.iterations)
    /\ power' = [power EXCEPT !.status = "returned"]
    /\ UNCHANGED <<mvars, avars, evars, cvars, svars, fvars>>

PowerNext ==
    \/ PowerPass
    \/ PowerReturn

\* the loop is the only thread of control: a pass that can run does run
SpecPower == PowerInit /\ [][PowerNext]_vars /\ WF_vars(PowerNext)

\* C17: the power iteration always terminates: for every transition matrix
\* and every cap iterations >= 0 it performs at most iterations
\* multiplications, stops as soon as every component changes by less than
\* precision, and when the cap is reached without convergence it returns the
\* last computed iterate (the starting distribution when the cap is 0),
\* without an error.
C17_PowerIterationTerminates ==
    /\ [](power.mults <= power.iterations)
    /\ [](power.converged => power.status = "returned")
    /\ []((power.status = "returned" /\ ~power.converged)
            => /\ power.mults = power.iterations
               /\ power.mults >= 1 => power.state = power.new)
    /\ <>(power.status = "returned")

\* C17 witness: a chain that never settles (the two items swap their mass at
\* every step) ran into the cap and returned its last iterate.
C17_Witness ==
    /\ power.status = "returned" /\ ~power.converged
    /\ power.iterations = MaxIterations /\ power.mults = MaxIterations
    /\ power.transition = << <<0, PowerDen>>, <<PowerDen, 0>> >>
    /\ power.state = power.new

\* C26: the value a query contributes to a metric depends only on the query's
\* hit list, its relevance judgment and the metric's own options: after the
\* first query every sum is the value the metric gives when it is the only
\* metric requested.
C26_MetricsDoNotInterfere ==
    (report.status = "running" /\ ratio = 1)
        => \A i \in 1..Len(handles) :
               evaluation[i] = QueryValues(query, <<handles[i]>>)[1]

----------------------------------------------------------------------------
(* atri/core/primitives/collection.py: ACol and its directory               *)
(*                                                                          *)
(* disk is the directory at the collection's path: whether it exists,       *)
(* whether it holds the metadata file, and the document files in it.  col   *)
(* is the one ACol object the program holds; colret records the last        *)
(* operation: its argument, its result, the object and the file before it.  *)

ADocs == [name : DocNames, body : Bodies]
ADocLists == UNION {[1..n -> ADocs] : n \in 0..2}

FileNames(d) == {n \in DocNames : d.files[n] # Absent}

\* bisect.insort(self._blocks, name) on a sorted list
Insort(blocks, name) ==
    LET k == Cardinality({i \in 1..Len(blocks) : blocks[i] <= name})
    IN  SubSeq(blocks, 1, k) \o <<name>> \o SubSeq(blocks, k + 1, Len(blocks))

RECURSIVE InsortAll(_, _)
InsortAll(blocks, names) ==
    IF names = {} THEN blocks
    ELSE LET n == CHOOSE x \in names : \A y \in names : x <= y
         IN  InsortAll(Insort(blocks, n), names \ {n})

\* list.remove(name): the first occurrence goes
ListRemove(blocks, name) ==
    LET i == CHOOSE j \in 1..Len(blocks) :
                 blocks[j] = name /\ \A h \in 1..(j - 1) : blocks[h] # name
    IN  SubSeq(blocks, 1, i - 1) \o SubSeq(blocks, i + 1, Len(blocks))

\* _update_metadata, also run by __del__: writes the file if the directory is there
update_metadata(d) == IF d.dir THEN [d EXCEPT !.meta = TRUE] ELSE d

\* Mutant of save_doc_refuses: an existing document is overwritten.
save_doc_never_refuses(exists, replace) == FALSE

\* _save_doc, line 352: doc_path.exists() and not replace
save_doc_refuses(exists, replace) == exists /\ ~replace

\* _save_doc(doc, replace)
save_doc(d, c, doc, replace) ==
    IF save_doc_refuses(d.files[doc.name] # Absent, replace)
    THEN [disk |-> d, col |-> c, result |-> "AtriError"]
    ELSE [disk |-> [d EXCEPT !.files[doc.name] = doc.body],
          col |-> [c EXCEPT !.docs = @ \cup {doc.name}, !.blocks = Insort(@, doc.name)],
          result |-> "ok"]

\* _config_corpus: the loop over atri_docs, from document i on
RECURSIVE save_docs(_, _, _, _, _)
save_docs(d, c, atri_docs, replace, i) ==
    IF i > Len(atri_docs) THEN [disk |-> d, col |-> c, result |-> "ok"]
    ELSE Only({IF r.result # "ok" THEN r
               ELSE save_docs(r.disk, r.col, atri_docs, replace, i + 1)
               : r \in {save_doc(d, c, atri_docs[i], replace)}})

\* force_load_docs
force_load_docs(d, c) ==
    IF c.lazy
    THEN [c EXCEPT !.docs = @ \cup FileNames(d),
                   !.blocks = InsortAll(@, FileNames(d)),
                   !.lazy = FALSE]
    ELSE c

\* delete_document(doc)
delete_document(d, c0, name) ==
    LET c == force_load_docs(d, c0)
    IN  IF name \in c.docs /\ d.files[name] # Absent
        THEN LET d1 == [d EXCEPT !.files[name] = Absent]
                 c1 == [c EXCEPT !.docs = @ \ {name}]
             IN  IF name \in Range(c.blocks)
                 THEN [disk |-> d1, col |-> [c1 EXCEPT !.blocks = ListRemove(@, name)],
                       result |-> "True"]
                 ELSE [disk |-> d1, col |-> c1, result |-> "ValueError"]
        ELSE [disk |-> d, col |-> c, result |-> "False"]

\* ACol.load(path, lazy): the object __init__ builds with loading=True
loaded_col(d, lazy) ==
    LET docs == IF lazy THEN {} ELSE FileNames(d)
    IN  [alive |-> TRUE, docs |-> docs, blocks |-> <<>>, lazy |-> docs = {}]

Did(op, name, result) ==
    colret' = [op |-> op, name |-> name, result |-> result, before |-> col,
               stored |-> IF name \in DocNames THEN disk.files[name] ELSE Absent,
               dir |-> disk.dir, page |-> 0, pths |-> <<>>, pages |-> 0]

\* document_paths: chunk_size = 10
ChunkSize == 10
MaxPage == 2

\* round(col_len / chunk_size): Python rounds a half to the even neighbour
RoundHalfEven(n, d) ==
    LET q == n \div d
        r == n % d
    IN  IF 2 * r < d THEN q
        ELSE IF 2 * r > d THEN q + 1
        ELSE IF q % 2 = 0 THEN q ELSE q + 1

total_pages(blocks) == RoundHalfEven(Len(blocks), ChunkSize)

\* self._blocks[start: start + chunk_size] for start = (page - 1) * chunk_size
BlocksOfPage(blocks, page) ==
    SubSeq(blocks, (page - 1) * ChunkSize + 1,
           IF page * ChunkSize < Len(blocks) THEN page * ChunkSize ELSE Len(blocks))

\* the members of a list whose file exists, in the list's order
RECURSIVE Existing(_, _)
Existing(d, names) ==
    IF names = <<>> THEN <<>>
    ELSE (IF d.files[Head(names)] # Absent THEN <<Head(names)>> ELSE <<>>)
             \o Existing(d, Tail(names))

\* document_paths(page): every triple it can return, the set _docs iterating
\* in any order
document_paths(d, c, page) ==
    IF page = 0 \/ Len(c.blocks) = 0
    THEN {[pths |-> Existing(d, order), page |-> 1, pages |-> 1] : order \in Perms(c.docs)}
    ELSE {[pths |-> Existing(d, BlocksOfPage(c.blocks, page)), page |-> page,
           pages |-> total_pages(c.blocks)]}

ColInit ==
    /\ disk \in {NoDisk, [NoDisk EXCEPT !.dir = TRUE]}
    /\ col = NoCol
    /\ colret = NoColRet
    /\ request = [metrics |-> <<>>, limit |-> {}]
    /\ EvalIdle
    /\ SearcherIdle
    /\ FsIdle
    /\ vec = <<>>
    /\ MetricIdle
    /\ rankings = <<>>
    /\ setorder = <<>>
    /\ AggIdle
    /\ PowerIdle

\* ACol(name, description, path, atri_docs=..., replace=...), lines 82-92; an
\* object whose __init__ raises is dropped, and __del__ writes the metadata
Create ==
    /\ ~col.alive
    /\ \E atri_docs \in ADocLists, replace \in BOOLEAN :
        IF disk.dir
        THEN /\ disk' = update_metadata(disk)
             /\ col' = NoCol
             /\ Did("create", 0, "AtriError")
        ELSE \E r \in {save_docs([disk EXCEPT !.dir = TRUE],
                                 [NoCol EXCEPT !.alive = TRUE, !.lazy = FALSE],
                                 atri_docs, replace, 1)} :
                 /\ disk' = update_metadata(r.disk)
                 /\ col' = IF r.result = "ok" THEN r.col ELSE NoCol
                 /\ Did("create", 0, r.result)
    /\ UNCHANGED <<mvars, avars, evars, pvars, svars, fvars>>

\* ACol(..., loading=True, atri_docs=...) and ACol(..., loading=False, docs=...),
\* lines 75-77 and 82-86
CreateInvalid ==
    /\ ~col.alive
    /\ \E loading \in BOOLEAN :
        /\ disk' = update_metadata(disk)
        /\ col' = NoCol
        /\ Did(IF loading THEN "loading_atri_docs" ELSE "not_loading_docs", 0, "AtriError")
    /\ UNCHANGED <<mvars, avars, evars, pvars, svars, fvars>>

\* col = ACol.load(path, lazy); the object col named before is dropped
Load ==
    /\ \E lazy \in BOOLEAN :
        IF disk.dir /\ disk.meta
        THEN /\ col' = loaded_col(disk, lazy)
             /\ Did(IF lazy THEN "load_lazy" ELSE "load", 0, "ok")
        ELSE /\ col' = col
             /\ Did(IF lazy THEN "load_lazy" ELSE "load", 0, "AtriError")
    /\ UNCHANGED disk
    /\ UNCHANGED <<mvars, avars, evars, pvars, svars, fvars>>

\* col.add(doc)
Add ==
    /\ col.alive
    /\ \E doc \in ADocs :
        \E r \in {save_doc(disk, col, doc, FALSE)} :
            /\ disk' = r.disk
            /\ col' = r.col
            /\ Did("add", doc.name, r.result)
    /\ UNCHANGED <<mvars, avars, evars, pvars, svars, fvars>>

\* col.delete_document(name)
DeleteDocument ==
    /\ col.alive
    /\ \E name \in DocNames :
        \E r \in {delete_document(disk, col, name)} :
            /\ disk' = r.disk
            /\ col' = r.col
            /\ Did("delete_document", name, r.result)
    /\ UNCHANGED <<mvars, avars, evars, pvars, svars, fvars>>

\* GET /collection/{name}?page=page: document_paths(page), then 404 when the
\* page is beyond the pages returned
GetCollection ==
    /\ col.alive
    /\ \E page \in 0..MaxPage :
        \E c \in {force_load_docs(disk, col)} :
            \E r \in document_paths(disk, c, page) :
                /\ col' = c
                /\ colret' = [op |-> "get_collection", name |-> 0,
                              result |-> IF page > r.pages THEN "404" ELSE "ok",
                              before |-> col, stored |-> Absent, dir |-> disk.dir,
                              page |-> page, pths |-> r.pths, pages |-> r.pages]
    /\ UNCHANGED disk
    /\ UNCHANGED <<mvars, avars, evars, pvars, svars, fvars>>

\* col.commit()
Commit ==
    /\ col.alive
    /\ disk' = update_metadata(disk)
    /\ UNCHANGED col
    /\ Did("commit", 0, "ok")
    /\ UNCHANGED <<mvars, avars, evars, pvars, svars, fvars>>

\* del col: __del__ writes the metadata
Del ==
    /\ col.alive
    /\ disk' = update_metadata(disk)
    /\ col' = NoCol
    /\ Did("del", 0, "ok")
    /\ UNCHANGED <<mvars, avars, evars, pvars, svars, fvars>>

ColNext ==
    \/ Create
    \/ CreateInvalid
    \/ Load
    \/ Add
    \/ DeleteDocument
    \/ GetCollection
    \/ Commit
    \/ Del

SpecCol == ColInit /\ [][ColNext]_vars

----------------------------------------------------------------------------
(* Claims about ACol                                                        *)

NonLazyBefore == colret.before.alive /\ ~colret.before.lazy

\* C18: on a non-lazy collection delete_document(name) returns True and
\* removes the name from docs when it is there and returns False otherwise,
\* add(doc) that succeeds puts the name into docs, and ACol.load(path,
\* lazy=False) gives a collection with the docs of the one it replaces.
C18_DocsFollowAddAndDelete ==
    /\ (NonLazyBefore /\ colret.op = "delete_document")
        => IF colret.name \in colret.before.docs
           THEN colret.result = "True" /\ col.docs = colret.before.docs \ {colret.name}
           ELSE colret.result = "False" /\ col.docs = colret.before.docs
    /\ (NonLazyBefore /\ colret.op = "add" /\ colret.result = "ok")
        => col.docs = colret.before.docs \cup {colret.name}
    /\ (NonLazyBefore /\ colret.op = "load")
        => colret.result = "ok" /\ col.docs = colret.before.docs

\* C19: add(doc) raises AtriError when the collection already holds a document
\* of that name, and then the stored document and docs are as before; a
\* construction with loading=True and atri_docs, or with loading=False and
\* docs, raises AtriError and leaves the directory absent if it was absent.
C19_DuplicateAddRaises ==
    /\ (colret.op = "add" /\ (colret.stored # Absent \/ colret.name \in colret.before.docs))
        => /\ colret.result = "AtriError"
           /\ disk.files[colret.name] = colret.stored
           /\ col.docs = colret.before.docs
    /\ colret.op \in {"loading_atri_docs", "not_loading_docs"}
        => /\ colret.result = "AtriError"
           /\ disk.dir = colret.dir
           /\ ~col.alive

\* add of a stored name refused on a collection reloaded with lazy=False
C19_Witness ==
    /\ colret.op = "add"
    /\ colret.result = "AtriError"
    /\ NonLazyBefore
    /\ colret.before.blocks = <<>>
    /\ colret.name \in colret.before.docs
    /\ colret.stored \in Bodies
    /\ disk.files[colret.name] = colret.stored

\* C28: in every state of a non-lazy ACol, _blocks is the sorted,
\* duplicate-free list of exactly the names in _docs; so delete_document(name)
\* for a name in docs returns True without raising and leaves no entry for the
\* name in _blocks.
C28_BlocksListDocs ==
    /\ (col.alive /\ ~col.lazy)
        => /\ \A i \in 1..(Len(col.blocks) - 1) : col.blocks[i] < col.blocks[i + 1]
           /\ Range(col.blocks) = col.docs
    /\ (NonLazyBefore /\ colret.op = "delete_document" /\ colret.name \in colret.before.docs)
        => /\ colret.result = "True"
           /\ colret.name \notin Range(col.blocks)

\* C29: for a collection holding N >= 1 documents the pages 1..total_pages of
\* document_paths partition the documents, every document being on exactly one
\* of them, so GET /collection/{name}?page=p never answers 404 for a page
\* that holds documents.
C29_PagesPartitionDocuments ==
    (colret.op = "get_collection" /\ col.docs # {})
        => /\ \A n \in col.docs :
                  Cardinality({pos \in 1..Len(col.blocks) :
                                  /\ col.blocks[pos] = n
                                  /\ pos <= total_pages(col.blocks) * ChunkSize}) = 1
           /\ (colret.page >= 1 /\ colret.pths # <<>>) => colret.result = "ok"

----------------------------------------------------------------------------
(* atri/core/ranking/search.py: ASearcher and its weighting cache           *)

\* sim['defaults'][attr], the value an attribute takes when kwargs lacks it
DefaultParam == 1

\* a request for a weighting: the similarity name and the parameters given
Schemas == [sim : SimNames, params : Opt(ParamValues)]
SchemaLists == UNION {[1..n -> Schemas] : n \in 1..2}

\* _get_similarity_one_item(similarity, **kwargs): the weighting returned and
\* the cache afterwards
get_similarity_one_item(cache, schema) ==
    IF cache[schema.sim] # {}
    THEN [weighting |-> [sim |-> schema.sim, value |-> Get(cache[schema.sim], DefaultParam)],
          cache |-> cache]
    ELSE LET value == Get(schema.params, DefaultParam)
         IN  [weighting |-> [sim |-> schema.sim, value |-> value],
              cache |-> [cache EXCEPT ![schema.sim] = {value}]]

\* _weighting_generator(sim): the weightings yielded from entry i on
RECURSIVE weighting_generator(_, _, _, _)
weighting_generator(cache, sim, i, used) ==
    IF i > Len(sim) THEN [cache |-> cache, used |-> used]
    ELSE LET r == get_similarity_one_item(cache, sim[i])
         IN  weighting_generator(r.cache, sim, i + 1, Append(used, r.weighting))

SearcherInit ==
    /\ searcher = NoSearcher
    /\ FsIdle
    /\ request = [metrics |-> <<>>, limit |-> {}]
    /\ EvalIdle
    /\ vec = <<>>
    /\ MetricIdle
    /\ rankings = <<>>
    /\ setorder = <<>>
    /\ AggIdle
    /\ PowerIdle
    /\ ColIdle

\* search(keywords, similarity=name, **params): one weighting, one search
SearchSingle ==
    /\ \E schema \in Schemas :
        LET r == get_similarity_one_item(searcher.cache, schema)
        IN  searcher' = [cache |-> r.cache, asked |-> <<schema>>, used |-> <<r.weighting>>]
    /\ UNCHANGED <<mvars, avars, evars, pvars, cvars, fvars>>

\* search(keywords, similarity=[{name: params}, ...]): one search per entry
SearchAggregated ==
    /\ \E sim \in SchemaLists :
        LET r == weighting_generator(searcher.cache, sim, 1, <<>>)
        IN  searcher' = [cache |-> r.cache, asked |-> sim, used |-> r.used]
    /\ UNCHANGED <<mvars, avars, evars, pvars, cvars, fvars>>

SearcherNext ==
    \/ SearchSingle
    \/ SearchAggregated

SpecSearcher == SearcherInit /\ [][SearcherNext]_vars

\* C27: within one ASearcher a weighting obtained for similarity s with
\* parameters p is configured with p: every search of the last request ran
\* with the weighting its own entry asks for.
C27_WeightingHasRequestedParams ==
    /\ Len(searcher.used) = Len(searcher.asked)
    /\ \A i \in 1..Len(searcher.asked) :
           searcher.used[i] = [sim |-> searcher.asked[i].sim,
                               value |-> Get(searcher.asked[i].params, DefaultParam)]

----------------------------------------------------------------------------
(* atri/manager/filesystem.py: FileSystem and its registry of collections   *)

Registered == DOMAIN fs.collections

Pop(collections, name) == [k \in (DOMAIN collections) \ {name} |-> collections[k]]
Put(collections, name, entry) ==
    [k \in (DOMAIN collections) \cup {name} |-> IF k = name THEN entry ELSE collections[k]]

\* Path.rename(target) of a collection's directory: the outcomes it can have.
\* A target that holds something is refused; an empty directory is replaced
\* on POSIX and refused on Windows.
PathRename(folders, path, target) ==
    LET moved == [folders EXCEPT ![path] = "none", ![target] = "col"]
    IN  IF folders[target] = "none" THEN {[result |-> "ok", folders |-> moved]}
        ELSE IF folders[target] = "empty"
        THEN {[result |-> "ok", folders |-> moved], [result |-> "OSError", folders |-> folders]}
        ELSE {[result |-> "OSError", folders |-> folders]}

\* rename(name, new_name, commit): every outcome, as the registry and the
\* folders afterwards
rename(collections, folders, name, new_name) ==
    IF name \notin DOMAIN collections \/ new_name \in DOMAIN collections
    THEN {[result |-> "FileSystemError", collections |-> collections, folders |-> folders]}
    ELSE {IF r.result = "ok"
          THEN [result |-> "ok", folders |-> r.folders,
                collections |-> Put(Pop(collections, name), new_name,
                                    [name |-> new_name, path |-> new_name])]
          ELSE [result |-> r.result, folders |-> r.folders,
                collections |-> Pop(collections, name)]
          : r \in PathRename(folders, collections[name].path, new_name)}

FsDid(op, name, new_name, result) ==
    [op |-> op, name |-> name, new_name |-> new_name, result |-> result,
     before |-> fs.collections]

\* FileSystem(root): the root and the temporary folder exist, no collection is
\* loaded, and the root may hold folders that are no collections
FsInit ==
    /\ fs \in {[NoFs EXCEPT !.folders = f] :
                 f \in {g \in [ColNames -> {"none", "empty", "full"}] : g["_temp"] # "none"}}
    /\ SearcherIdle
    /\ request = [metrics |-> <<>>, limit |-> {}]
    /\ EvalIdle
    /\ vec = <<>>
    /\ MetricIdle
    /\ rankings = <<>>
    /\ setorder = <<>>
    /\ AggIdle
    /\ PowerIdle
    /\ ColIdle

\* add(name, description)
FsAdd ==
    /\ \E name \in ColNames :
        IF name \in Registered \/ fs.folders[name] # "none"
        THEN fs' = [fs EXCEPT !.last = FsDid("add", name, "", "FileSystemError")]
        ELSE fs' = [collections |-> Put(fs.collections, name, [name |-> name, path |-> name]),
                    folders |-> [fs.folders EXCEPT ![name] = "col"],
                    last |-> FsDid("add", name, "", "ok")]
    /\ UNCHANGED <<mvars, avars, evars, pvars, cvars, svars>>

\* remove(name)
FsRemove ==
    /\ \E name \in ColNames :
        IF name \notin Registered
        THEN fs' = [fs EXCEPT !.last = FsDid("remove", name, "", "FileSystemError")]
        ELSE fs' = [collections |-> Pop(fs.collections, name),
                    folders |-> [fs.folders EXCEPT ![fs.collections[name].path] = "none"],
                    last |-> FsDid("remove", name, "", "ok")]
    /\ UNCHANGED <<mvars, avars, evars, pvars, cvars, svars>>

\* rename(name, new_name)
FsRename ==
    /\ \E name \in ColNames, new_name \in ColNames :
        \E r \in rename(fs.collections, fs.folders, name, new_name) :
            fs' = [collections |-> r.collections, folders |-> r.folders,
                   last |-> FsDid("rename", name, new_name, r.result)]
    /\ UNCHANGED <<mvars, avars, evars, pvars, cvars, svars>>

\* update_collection(collection_name, name=..., description=...)
FsUpdateCollection ==
    /\ \E name \in ColNames, new_name \in ColNames \cup {""} :
        IF name \notin Registered
        THEN fs' = [fs EXCEPT !.last =
                        FsDid("update_collection", name, new_name, "FileSystemError")]
        ELSE IF new_name = ""
        THEN fs' = [fs EXCEPT !.last = FsDid("update_collection", name, new_name, "ok")]
        ELSE \E r \in rename(fs.collections, fs.folders, name, new_name) :
                 fs' = [collections |-> r.collections, folders |-> r.folders,
                        last |-> FsDid("update_collection", name, new_name, r.result)]
    /\ UNCHANGED <<mvars, avars, evars, pvars, cvars, svars>>

FsNext ==
    \/ FsAdd
    \/ FsRemove
    \/ FsRename
    \/ FsUpdateCollection

SpecFs == FsInit /\ [][FsNext]_vars

\* C30: every entry collections[k] is a collection whose name is k, and a
\* rename or update_collection that raises leaves the registry as it was, the
\* collection registered under its old name with its old name and path.
C30_RegistryConsistent ==
    /\ \A k \in Registered : fs.collections[k].name = k
    /\ (fs.last.op \in {"rename", "update_collection"} /\ fs.last.result # "ok")
        => fs.collections = fs.last.before

====
